---- MODULE Spec2Model ----
(***************************************************************************)
(* Model of MoleculeBuilder (molecule-builder-app.py): the component       *)
(* registries, the attachment point registry, the Molecule aggregate and   *)
(* the position/draw computation of visualize_molecule.                    *)
(*                                                                         *)
(* Python dicts that the code iterates (attached_sugars,                   *)
(* attached_substituents) are sequences of [point, items] entries in key   *)
(* insertion order; dicts that are only looked up by key are functions.    *)
(* A raised exception is recorded in last.exc, a returned figure in        *)
(* last.fig.  Coordinates are integers (the defaults are, and the form     *)
(* steps by 1.0).                                                          *)
(***************************************************************************)
EXTENDS Integers, Sequences, FiniteSets, TLC

VARIABLES scaffolds, sugars, substituents, attachment_points,
          molecule_scaffold, attached_sugars, attached_substituents,
          nAdds, last

vars == <<scaffolds, sugars, substituents, attachment_points,
          molecule_scaffold, attached_sugars, attached_substituents,
          nAdds, last>>

----------------------------------------------------------------------------
(* Bounds of the exploration *)

MaxAttach == 2

MaxAdds == 1

MaxNewPoints == 1

(* Inputs the operations are called with.  Spec explores all five       *)
(* operations together; SpecRegistry explores the registries with every   *)
(* shape, color and category; SpecLayout explores attaching and rendering *)
(* with every direction.                                                   *)

AddNames == {"XYL", "QA"}

AddShapes == {"circle", "triangle"}

AddColors == {"red"}

Labels == {"Lbl"}

Categories == {"Scaffold", "Sugar", "Substituent"}

NewPointNames == {"FRight", "P1"}

Positions == {<<0, 0>>, <<2, -1>>}

GraphPositions == {<<2, -1>>}

AttachPoints == {"FRight", "P1"}

ComponentNames == {"XYL", "OH"}

AttachDirections == {"Up", "Sideways"}

AttachCategories == {"Sugar", "Substituent", "Scaffold"}

ScaffoldChoices == {"QA", "BA"}

RegistryShapes == {"hexagon", "circle", "triangle"}

RegistryColors == {"red", "none", "bogus"}

RegistryCategories == {"Scaffold", "Sugar", "Substituent", "Other"}

RegistryPointNames == {"FRight", "P1", "P2"}

LayoutDirections == {"Up", "Down", "Left", "Right", "Sideways"}

LayoutCategories == {"Sugar", "Substituent"}

----------------------------------------------------------------------------
(* Data classes *)

MolecularComponent(name, shape, color, label) ==
    [name |-> name, shape |-> shape, color |-> color, label |-> label]

AttachmentPoint(name, position) == [name |-> name, position |-> position]

(* The value dict.get returns for a missing key *)
None == [name |-> "<None>", shape |-> "<None>", color |-> "<None>", label |-> "<None>"]

(* Exceptions, by the message each raise site formats *)
NoExc == "None"
ExcPointExists == "ValueError: Attachment point already exists"
ExcInvalidShape == "ValueError: Invalid shape"
ExcInvalidColor == "ValueError: Invalid color value"
ExcInvalidPoint == "ValueError: Invalid attachment point"
ExcNoComponent == "ValueError: Component does not exist in category"

NoFig == [all_positions |-> <<>>, artists |-> <<>>]

Returned(op) == [op |-> op, exc |-> NoExc, fig |-> NoFig]

Raised(op, exc) == [op |-> op, exc |-> exc, fig |-> NoFig]

----------------------------------------------------------------------------
(* MoleculeBuilder.__init__ *)

default_scaffolds ==
    ("QA"    :> MolecularComponent("QA", "hexagon", "lime", "QA")) @@
    ("QA-OH" :> MolecularComponent("QA", "hexagon", "limegreen", "QA-OH")) @@
    ("BA"    :> MolecularComponent("BA", "hexagon", "red", "BA")) @@
    ("P"     :> MolecularComponent("BA", "hexagon", "gray", "P")) @@
    ("P-Ac"  :> MolecularComponent("BA", "hexagon", "gainsboro", "P-Ac")) @@
    ("G"     :> MolecularComponent("BA", "hexagon", "magenta", "G")) @@
    ("E"     :> MolecularComponent("BA", "hexagon", "goldenrod", "E")) @@
    ("E-A"   :> MolecularComponent("BA", "hexagon", "gold", "E-A"))

default_sugars ==
    ("XYL" :> MolecularComponent("XYL", "circle", "#228B22", "Xyl")) @@
    ("FUC" :> MolecularComponent("FUC", "circle", "#DC143C", "Fuc")) @@
    ("GLU" :> MolecularComponent("GLU", "circle", "#9370DB", "Glu")) @@
    ("RHA" :> MolecularComponent("RHA", "circle", "#FFD700", "Rha")) @@
    ("ARA" :> MolecularComponent("RHA", "circle", "cyan", "Ara")) @@
    ("GAL" :> MolecularComponent("RHA", "circle", "orange", "Gal"))

default_substituents ==
    ("H"       :> MolecularComponent("H", "circle", "none", "H")) @@
    ("Acyl"    :> MolecularComponent("Acyl", "circle", "none", "Ac")) @@
    ("OH"      :> MolecularComponent("OH", "circle", "none", "OH")) @@
    ("OHMeHex" :> MolecularComponent("OHMeHex", "circle", "none", "OHMeHex"))

default_attachment_points ==
    ("Zero"   :> AttachmentPoint("Zero", <<0, 0>>)) @@
    ("FRight" :> AttachmentPoint("FR", <<1, 0>>)) @@
    ("FLeft"  :> AttachmentPoint("FL", <<-1, 0>>)) @@
    ("SRight" :> AttachmentPoint("FR", <<2, 0>>)) @@
    ("SLeft"  :> AttachmentPoint("FL", <<-2, 0>>))

Init ==
    /\ scaffolds = default_scaffolds
    /\ sugars = default_sugars
    /\ substituents = default_substituents
    /\ attachment_points = default_attachment_points
    /\ molecule_scaffold = default_scaffolds["QA"]
    /\ attached_sugars = <<>>
    /\ attached_substituents = <<>>
    /\ nAdds = 0
    /\ last = Returned("__init__")

----------------------------------------------------------------------------
(* dict helpers *)

dict_get(d, key) == IF key \in DOMAIN d THEN d[key] ELSE None

dict_set(d, key, value) == [k \in (DOMAIN d) \cup {key} |-> IF k = key THEN value ELSE d[k]]

(* keys of an insertion-ordered dict *)
Keys(d) == {d[i].point : i \in DOMAIN d}

IndexOf(d, key) == CHOOSE i \in DOMAIN d : d[i].point = key

ItemsAt(d, key) == IF key \in Keys(d) THEN d[IndexOf(d, key)].items ELSE <<>>

RECURSIVE NumAttached(_)
NumAttached(d) == IF d = <<>> THEN 0 ELSE Len(Head(d).items) + NumAttached(Tail(d))

----------------------------------------------------------------------------
(* add_attachment_point *)

(* self.attachment_points[name] = AttachmentPoint(name, position).  The    *)
(* exploration stops adding names at MaxNewPoints new ones.                *)
insert_attachment_point(name, position) ==
    /\ Cardinality(DOMAIN attachment_points \ DOMAIN default_attachment_points) < MaxNewPoints
       \/ name \in DOMAIN attachment_points
    /\ attachment_points' = dict_set(attachment_points, name, AttachmentPoint(name, position))
    /\ last' = Returned("add_attachment_point")
    /\ UNCHANGED <<scaffolds, sugars, substituents,
                   molecule_scaffold, attached_sugars, attached_substituents, nAdds>>

(* faulty variant: the duplicate check is missing *)
add_attachment_point_overwrite(name, position) == insert_attachment_point(name, position)

add_attachment_point(name, position) ==
    IF name \in DOMAIN attachment_points
    THEN /\ last' = Raised("add_attachment_point", ExcPointExists)
         /\ UNCHANGED <<scaffolds, sugars, substituents, attachment_points,
                        molecule_scaffold, attached_sugars, attached_substituents, nAdds>>
    ELSE insert_attachment_point(name, position)

----------------------------------------------------------------------------
(* add_component *)

VALID_SHAPES == {"hexagon", "circle"}

(* plt.plot(c=color) is called with no data arguments: pyplot builds no     *)
(* Line2D, so the color is never parsed and no ValueError is raised.       *)
plot_raises_ValueError(color) == FALSE

(* faulty variant: setdefault instead of assignment, an existing entry is kept *)
registry_store_setdefault(registry, name, component, selected) ==
    IF selected /\ name \notin DOMAIN registry THEN dict_set(registry, name, component) ELSE registry

(* one branch of the if/elif chain: registry[name] = component when the     *)
(* branch's category is the one given                                       *)
registry_store(registry, name, component, selected) ==
    IF selected THEN dict_set(registry, name, component) ELSE registry

(* the registry entry the call replaces, None if there is none *)
replaced_entry(name, category) ==
    IF category = "Sugar" THEN dict_get(sugars, name)
    ELSE IF category = "Substituent" THEN dict_get(substituents, name)
    ELSE IF category = "Scaffold" THEN dict_get(scaffolds, name)
    ELSE None

(* every pair of d that holds the component old, holding new instead *)
rebind(d, old, new) ==
    [e \in DOMAIN d |->
        [point |-> d[e].point,
         items |-> [j \in DOMAIN d[e].items |->
                       IF d[e].items[j][1] = old THEN <<new, d[e].items[j][2]>> ELSE d[e].items[j]]]]

(* faulty variant: the existing MolecularComponent object is updated in place, so   *)
(* every holder of that object sees the new fields                          *)
bind_component_inplace(name, component, category) ==
    /\ sugars' = registry_store(sugars, name, component, category = "Sugar")
    /\ substituents' = registry_store(substituents, name, component, category = "Substituent")
    /\ scaffolds' = registry_store(scaffolds, name, component, category = "Scaffold")
    /\ attached_sugars' = rebind(attached_sugars, replaced_entry(name, category), component)
    /\ attached_substituents' = rebind(attached_substituents, replaced_entry(name, category), component)
    /\ molecule_scaffold' = IF molecule_scaffold = replaced_entry(name, category)
                            THEN component ELSE molecule_scaffold
    /\ UNCHANGED attachment_points

(* the if/elif chain binds the key to the new object; the objects held by   *)
(* the molecule are other objects and keep their fields                     *)
bind_component(name, component, category) ==
    /\ sugars' = registry_store(sugars, name, component, category = "Sugar")
    /\ substituents' = registry_store(substituents, name, component, category = "Substituent")
    /\ scaffolds' = registry_store(scaffolds, name, component, category = "Scaffold")
    /\ UNCHANGED <<attachment_points, molecule_scaffold, attached_sugars, attached_substituents>>

add_component(name, shape, color, label, category) ==
    IF shape \notin VALID_SHAPES
    THEN /\ last' = Raised("add_component", ExcInvalidShape)
         /\ UNCHANGED <<scaffolds, sugars, substituents, attachment_points,
                        molecule_scaffold, attached_sugars, attached_substituents, nAdds>>
    ELSE IF plot_raises_ValueError(color)
    THEN /\ last' = Raised("add_component", ExcInvalidColor)
         /\ UNCHANGED <<scaffolds, sugars, substituents, attachment_points,
                        molecule_scaffold, attached_sugars, attached_substituents, nAdds>>
    ELSE /\ nAdds < MaxAdds
         /\ nAdds' = nAdds + 1
         /\ bind_component(name, MolecularComponent(name, shape, color, label), category)
         /\ last' = Returned("add_component")

----------------------------------------------------------------------------
(* attach_component *)

(* faulty variant: the name is looked up in both registries *)
lookup_component_any(component_name, category) ==
    IF component_name \in DOMAIN sugars THEN sugars[component_name]
    ELSE dict_get(substituents, component_name)

lookup_component(component_name, category) ==
    IF category = "Sugar" THEN dict_get(sugars, component_name)
    ELSE dict_get(substituents, component_name)

(* faulty variant: the list is created on every call *)
append_attached_reset(d, parent_point, pair) ==
    IF parent_point \in Keys(d)
    THEN [d EXCEPT ![IndexOf(d, parent_point)].items = <<pair>>]
    ELSE Append(d, [point |-> parent_point, items |-> <<pair>>])

(* d[parent_point] = [] if absent, then d[parent_point].append(pair) *)
append_attached(d, parent_point, pair) ==
    IF parent_point \in Keys(d)
    THEN [d EXCEPT ![IndexOf(d, parent_point)].items = Append(@, pair)]
    ELSE Append(d, [point |-> parent_point, items |-> <<pair>>])

(* the method from the component lookup on *)
attach_looked_up(parent_point, component_name, direction, category) ==
    LET component == lookup_component(component_name, category) IN
    IF component = None
    THEN /\ last' = Raised("attach_component", ExcNoComponent)
         /\ UNCHANGED <<scaffolds, sugars, substituents, attachment_points,
                        molecule_scaffold, attached_sugars, attached_substituents, nAdds>>
    ELSE /\ NumAttached(attached_sugars) + NumAttached(attached_substituents) < MaxAttach
         /\ IF category = "Sugar"
            THEN /\ attached_sugars' = append_attached(attached_sugars, parent_point,
                                                       <<component, direction>>)
                 /\ UNCHANGED attached_substituents
            ELSE /\ attached_substituents' = append_attached(attached_substituents, parent_point,
                                                             <<component, direction>>)
                 /\ UNCHANGED attached_sugars
         /\ last' = Returned("attach_component")
         /\ UNCHANGED <<scaffolds, sugars, substituents, attachment_points,
                        molecule_scaffold, nAdds>>

(* faulty variant: the attachment point is not checked *)
attach_component_unchecked(parent_point, component_name, direction, category) ==
    attach_looked_up(parent_point, component_name, direction, category)

attach_component(parent_point, component_name, direction, category) ==
    IF parent_point \notin DOMAIN attachment_points
    THEN /\ last' = Raised("attach_component", ExcInvalidPoint)
         /\ UNCHANGED <<scaffolds, sugars, substituents, attachment_points,
                        molecule_scaffold, attached_sugars, attached_substituents, nAdds>>
    ELSE attach_looked_up(parent_point, component_name, direction, category)

----------------------------------------------------------------------------
(* main: builder.molecule.scaffold = builder.scaffolds[scaffold] *)

select_scaffold(scaffold) ==
    /\ scaffold \in DOMAIN scaffolds
    /\ molecule_scaffold' = scaffolds[scaffold]
    /\ last' = Returned("select_scaffold")
    /\ UNCHANGED <<scaffolds, sugars, substituents, attachment_points,
                   attached_sugars, attached_substituents, nAdds>>

----------------------------------------------------------------------------
(* draw_shape and visualize_molecule *)

draw_shape(shape_type, position, color, label) ==
    IF shape_type = "hexagon"
    THEN <<[shape |-> "hexagon", position |-> position, color |-> color, label |-> label, fontsize |-> 13]>>
    ELSE IF shape_type = "circle"
    THEN <<[shape |-> "circle", position |-> position, color |-> color, label |-> label, fontsize |-> 8]>>
    ELSE <<>>

direction_vector(direction) ==
    CASE direction = "Right" -> <<1, 0>>
      [] direction = "Left"  -> <<-1, 0>>
      [] direction = "Up"    -> <<0, 1>>
      [] direction = "Down"  -> <<0, -1>>
      [] OTHER               -> <<1, 0>>

(* faulty variant: the offset grows with the index (the commented-out factor) *)
component_position_indexed(point, direction, i) ==
    <<attachment_points[point].position[1] + direction_vector(direction)[1] * (i + 1),
      attachment_points[point].position[2] + direction_vector(direction)[2] * (i + 1)>>

(* i is the enumerate index of the item in its sequence, from 0 *)
component_position(point, direction, i) ==
    <<attachment_points[point].position[1] + direction_vector(direction)[1] * 1,
      attachment_points[point].position[2] + direction_vector(direction)[2] * 1>>

RECURSIVE positions_of(_, _, _)
positions_of(point, items, i) ==
    IF i >= Len(items) THEN <<>>
    ELSE <<component_position(point, items[i + 1][2], i)>> \o positions_of(point, items, i + 1)

RECURSIVE artists_of(_, _, _)
artists_of(point, items, i) ==
    IF i >= Len(items) THEN <<>>
    ELSE LET component == items[i + 1][1]
             direction == items[i + 1][2]
         IN draw_shape(component.shape, component_position(point, direction, i),
                       component.color, component.label)
            \o artists_of(point, items, i + 1)

RECURSIVE all_positions_of(_)
all_positions_of(d) ==
    IF d = <<>> THEN <<>>
    ELSE positions_of(Head(d).point, Head(d).items, 0) \o all_positions_of(Tail(d))

RECURSIVE all_artists_of(_)
all_artists_of(d) ==
    IF d = <<>> THEN <<>>
    ELSE artists_of(Head(d).point, Head(d).items, 0) \o all_artists_of(Tail(d))

scaffold_pos == <<0, 0>>

(* self.attachment_points[point] raises KeyError for a key that is not registered *)
ExcKeyError == "KeyError"

visualize_molecule ==
    /\ last' = IF (Keys(attached_sugars) \cup Keys(attached_substituents)) \subseteq DOMAIN attachment_points
               THEN [op |-> "visualize_molecule", exc |-> NoExc,
                     fig |-> [all_positions |-> <<scaffold_pos>>
                                                \o all_positions_of(attached_sugars)
                                                \o all_positions_of(attached_substituents),
                              artists |-> draw_shape(molecule_scaffold.shape, scaffold_pos,
                                                     molecule_scaffold.color, molecule_scaffold.label)
                                          \o all_artists_of(attached_sugars)
                                          \o all_artists_of(attached_substituents)]]
               ELSE Raised("visualize_molecule", ExcKeyError)
    /\ UNCHANGED <<scaffolds, sugars, substituents, attachment_points,
                   molecule_scaffold, attached_sugars, attached_substituents, nAdds>>

----------------------------------------------------------------------------

Next ==
    \/ \E name \in NewPointNames, position \in GraphPositions : add_attachment_point(name, position)
    \/ \E name \in AddNames, shape \in AddShapes, color \in AddColors, label \in Labels,
          category \in Categories : add_component(name, shape, color, label, category)
    \/ \E parent_point \in AttachPoints, component_name \in ComponentNames,
          direction \in AttachDirections, category \in AttachCategories :
          attach_component(parent_point, component_name, direction, category)
    \/ \E scaffold \in ScaffoldChoices : select_scaffold(scaffold)
    \/ visualize_molecule

Spec == Init /\ [][Next]_vars

NextRegistry ==
    \/ \E name \in RegistryPointNames, position \in Positions : add_attachment_point(name, position)
    \/ \E name \in AddNames, shape \in RegistryShapes, color \in RegistryColors, label \in Labels,
          category \in RegistryCategories : add_component(name, shape, color, label, category)
    \/ \E scaffold \in ScaffoldChoices : select_scaffold(scaffold)

SpecRegistry == Init /\ [][NextRegistry]_vars

NextLayout ==
    \/ \E name \in NewPointNames, position \in Positions : add_attachment_point(name, position)
    \/ \E parent_point \in AttachPoints, component_name \in ComponentNames,
          direction \in LayoutDirections, category \in LayoutCategories :
          attach_component(parent_point, component_name, direction, category)
    \/ visualize_molecule

SpecLayout == Init /\ [][NextLayout]_vars

----------------------------------------------------------------------------
(* Vocabulary of the properties *)

NamedColors == {"lime", "limegreen", "red", "gray", "gainsboro", "magenta",
                "goldenrod", "gold", "cyan", "orange"}

HexColors == {"#228B22", "#DC143C", "#9370DB", "#FFD700"}

(* a valid named or hex color value, or the sentinel "none" *)
AcceptableColor(color) == color \in NamedColors \cup HexColors \cup {"none"}

AttachedUnchanged == UNCHANGED <<attached_sugars, attached_substituents>>

RegistriesUnchanged == UNCHANGED <<scaffolds, sugars, substituents, attachment_points>>

SomethingAttached == attached_sugars # <<>> \/ attached_substituents # <<>>

(* the items of an attachment map in iteration order, each with its point *)
RECURSIVE Flatten(_)
Flatten(d) ==
    IF d = <<>> THEN <<>>
    ELSE [j \in 1..Len(Head(d).items) |->
             [point |-> Head(d).point,
              component |-> Head(d).items[j][1],
              direction |-> Head(d).items[j][2]]] \o Flatten(Tail(d))

TableVector(direction) ==
    IF direction = "Up" THEN <<0, 1>>
    ELSE IF direction = "Down" THEN <<0, -1>>
    ELSE IF direction = "Left" THEN <<-1, 0>>
    ELSE <<1, 0>>

ResolvedPosition(point, direction) ==
    <<attachment_points[point].position[1] + TableVector(direction)[1],
      attachment_points[point].position[2] + TableVector(direction)[2]>>

----------------------------------------------------------------------------
(* C1: attach_component with a parent_point that is not registered raises   *)
(* the invalid-attachment-point ValueError whatever the other arguments     *)
(* are, and leaves attached_sugars and attached_substituents as they were.  *)
C1_UnknownPointRejected ==
    [][\A parent_point \in AttachPoints, component_name \in ComponentNames,
          direction \in AttachDirections, category \in AttachCategories :
          (/\ last'.op = "attach_component"
           /\ parent_point \notin DOMAIN attachment_points
           /\ attach_component(parent_point, component_name, direction, category))
          => /\ last'.exc = ExcInvalidPoint
             /\ AttachedUnchanged]_vars

C1_Witness ==
    /\ last.op = "attach_component"
    /\ last.exc = ExcInvalidPoint
    /\ SomethingAttached

(* C2: attach_component with a registered point and category Sugar or       *)
(* Substituent raises the unknown-component ValueError when the name is no  *)
(* key of that category's registry, also when another category has the      *)
(* name, and changes no attachment map and no registry.                     *)
C2_UnknownComponentRejected ==
    [][\A parent_point \in AttachPoints, component_name \in ComponentNames,
          direction \in AttachDirections, category \in {"Sugar", "Substituent"} :
          (/\ last'.op = "attach_component"
           /\ parent_point \in DOMAIN attachment_points
           /\ component_name \notin DOMAIN (IF category = "Sugar" THEN sugars ELSE substituents)
           /\ attach_component(parent_point, component_name, direction, category))
          => /\ last'.exc = ExcNoComponent
             /\ AttachedUnchanged
             /\ RegistriesUnchanged]_vars

C2_Witness ==
    /\ last.op = "attach_component"
    /\ last.exc = ExcNoComponent
    /\ SomethingAttached
    /\ "P1" \in DOMAIN attachment_points

(* C3: add_attachment_point with a name already in the registry raises the  *)
(* already-exists ValueError and leaves the registry, and so the entry's    *)
(* original position, unchanged.                                            *)
C3_DuplicatePointRejected ==
    [][\A name \in RegistryPointNames, position \in Positions :
          (/\ name \in DOMAIN attachment_points
           /\ add_attachment_point(name, position))
          => /\ last'.op = "add_attachment_point"
             /\ last'.exc = ExcPointExists
             /\ attachment_points' = attachment_points]_vars

C3_Witness ==
    /\ last.op = "add_attachment_point"
    /\ last.exc = ExcPointExists
    /\ "P1" \in DOMAIN attachment_points
    /\ attachment_points["FRight"].position = <<1, 0>>

(* C4: add_component with a valid shape, a valid color and one of the three *)
(* categories returns normally, and that category's registry then holds     *)
(* under the name a component with exactly the given name, shape, color     *)
(* and label, whatever it held before.                                      *)
C4_AddedComponentRetrievable ==
    [][\A name \in AddNames, shape \in RegistryShapes, color \in RegistryColors,
          label \in Labels, category \in {"Scaffold", "Sugar", "Substituent"} :
          (/\ shape \in {"hexagon", "circle"}
           /\ AcceptableColor(color)
           /\ add_component(name, shape, color, label, category))
          => /\ last'.op = "add_component"
             /\ last'.exc = NoExc
             /\ LET registry == IF category = "Sugar" THEN sugars'
                                ELSE IF category = "Substituent" THEN substituents'
                                ELSE scaffolds'
                IN /\ name \in DOMAIN registry
                   /\ registry[name] = [name |-> name, shape |-> shape,
                                        color |-> color, label |-> label]]_vars

C4_Witness ==
    /\ last.op = "add_component"
    /\ last.exc = NoExc
    /\ sugars["XYL"].label = "Lbl"
    /\ sugars["XYL"].shape = "hexagon"
    /\ AcceptableColor(sugars["XYL"].color)

(* C5: add_component with a valid shape and a color that is neither a valid *)
(* color nor "none" raises the invalid-color ValueError and inserts         *)
(* nothing into the three component registries.                             *)
C5_InvalidColorRejected ==
    [][\A name \in AddNames, shape \in RegistryShapes, color \in RegistryColors,
          label \in Labels, category \in RegistryCategories :
          (/\ shape \in {"hexagon", "circle"}
           /\ ~AcceptableColor(color)
           /\ add_component(name, shape, color, label, category))
          => /\ last'.exc = ExcInvalidColor
             /\ UNCHANGED <<scaffolds, sugars, substituents>>]_vars

(* C6: the figure returned by visualize_molecule places every attached item *)
(* at the registered position of its point plus the table vector of its     *)
(* direction (anything unlisted as Right), whatever its index: items of one *)
(* point and one direction coincide, an unlisted direction lands where      *)
(* Right does, and FRight with Right gives (2, 0).                          *)
C6_ResolvedPositions ==
    (last.op = "visualize_molecule") =>
        LET items == Flatten(attached_sugars) \o Flatten(attached_substituents)
            drawn(k) == last.fig.artists[k + 1].position
        IN /\ last.exc = NoExc
           /\ Len(last.fig.artists) = 1 + Len(items)
           /\ Len(last.fig.all_positions) = 1 + Len(items)
           /\ last.fig.artists[1].position = <<0, 0>>
           /\ \A k \in DOMAIN items :
                 /\ drawn(k) = ResolvedPosition(items[k].point, items[k].direction)
                 /\ last.fig.all_positions[k + 1] = drawn(k)
                 /\ items[k].direction \notin {"Up", "Down", "Left", "Right"}
                       => drawn(k) = ResolvedPosition(items[k].point, "Right")
                 /\ (items[k].point = "FRight" /\ items[k].direction = "Right")
                       => drawn(k) = <<2, 0>>
           /\ \A k1, k2 \in DOMAIN items :
                 (items[k1].point = items[k2].point /\ items[k1].direction = items[k2].direction)
                    => drawn(k1) = drawn(k2)

C6_Witness ==
    /\ last.op = "visualize_molecule"
    /\ \E e \in DOMAIN attached_sugars :
          /\ attached_sugars[e].point = "FRight"
          /\ Len(attached_sugars[e].items) >= 2
          /\ attached_sugars[e].items[1][2] = "Down"
          /\ attached_sugars[e].items[2][2] = "Down"

(* C7: every key of attached_sugars and attached_substituents is a key of   *)
(* the attachment point registry, and the renderer's lookup never misses.   *)
C7_AttachedKeysRegistered ==
    /\ Keys(attached_sugars) \cup Keys(attached_substituents) \subseteq DOMAIN attachment_points
    /\ last.exc # ExcKeyError

C7_Witness ==
    /\ last.op = "visualize_molecule"
    /\ last.exc = NoExc
    /\ "P1" \in Keys(attached_sugars)
    /\ "FRight" \in Keys(attached_substituents)

(* C8: within each component registry no two entries hold components with   *)
(* the same name field.                                                     *)
C8_NameUniqueInCategory ==
    \A registry \in {scaffolds, sugars, substituents} :
        \A k1, k2 \in DOMAIN registry :
            k1 # k2 => registry[k1].name # registry[k2].name

(* C9: a successful attach_component appends exactly the pair (component of *)
(* that name, direction as given) at the end of the point's sequence in the *)
(* map the category selects, creating the sequence after the existing keys  *)
(* if absent; other sequences of the map and the other map are unchanged.   *)
C9_AttachAppends ==
    [][\A parent_point \in AttachPoints, component_name \in ComponentNames,
          direction \in AttachDirections, category \in AttachCategories :
          (/\ last'.op = "attach_component"
           /\ last'.exc = NoExc
           /\ attach_component(parent_point, component_name, direction, category))
          => LET sugar == category = "Sugar"
                 before == IF sugar THEN attached_sugars ELSE attached_substituents
                 after == IF sugar THEN attached_sugars' ELSE attached_substituents'
                 component == IF sugar THEN sugars[component_name] ELSE substituents[component_name]
             IN /\ ItemsAt(after, parent_point)
                     = Append(ItemsAt(before, parent_point), <<component, direction>>)
                /\ Len(after) = Len(before) + (IF parent_point \in Keys(before) THEN 0 ELSE 1)
                /\ \A e \in DOMAIN before :
                      /\ after[e].point = before[e].point
                      /\ before[e].point # parent_point => after[e].items = before[e].items
                /\ IF sugar THEN UNCHANGED attached_substituents ELSE UNCHANGED attached_sugars]_vars

C9_Witness ==
    /\ last.op = "attach_component"
    /\ last.exc = NoExc
    /\ \E e \in DOMAIN attached_sugars :
          /\ Len(attached_sugars[e].items) = 2
          /\ attached_sugars[e].items[1][2] = "Up"
          /\ attached_sugars[e].items[2][2] = "Sideways"

(* C10: add_component changes no pair of attached_sugars and                *)
(* attached_substituents and not the molecule's scaffold, also when it      *)
(* overwrites the registry entry a pair or the scaffold came from.          *)
C10_AttachmentsKeepComponent ==
    [][\A name \in AddNames, shape \in AddShapes, color \in AddColors,
          label \in Labels, category \in Categories :
          (/\ last'.op = "add_component"
           /\ add_component(name, shape, color, label, category))
          => /\ AttachedUnchanged
             /\ UNCHANGED molecule_scaffold]_vars

C10_Witness ==
    /\ last.op = "add_component"
    /\ last.exc = NoExc
    /\ \E e \in DOMAIN attached_sugars :
          \E j \in DOMAIN attached_sugars[e].items :
             /\ attached_sugars[e].items[j][1].name = "XYL"
             /\ attached_sugars[e].items[j][1].label = "Xyl"
             /\ sugars["XYL"].label = "Lbl"

====
